---- MODULE Spec2Model ----
(***************************************************************************)
(* Task controllers and the notifyUser e-mail helper of                    *)
(* src/src/emails/utils/task-notify.ts.                                    *)
(*                                                                         *)
(* Every controller is an async function: it runs synchronously up to its  *)
(* next await, so one action models the code between two awaits.  Several  *)
(* requests are in flight at once and interleave at their awaits.          *)
(* The collaborators that the file imports (validation schemas, the member *)
(* service, roleGuard, the task services, UserModel) are modelled from the *)
(* specification document; the controllers and notifyUser from the source. *)
(***************************************************************************)
EXTENDS Integers, Sequences, FiniteSets, TLC

\* Number of requests served (each slot serves one request).
NumReqs == 2
\* Longest query-parameter text drawn for the listing endpoint.
MaxLen == 2

Reqs == 1..NumReqs

VARIABLES
  tasks,    \* the task store: task id -> task document
  nextId,   \* id the store gives to the next created task
  pc,       \* per request: the await the controller is suspended at
  req,      \* per request: the HTTP request (header, params, body, query)
  cur,      \* per request: the controller's local `task`
  args,     \* per request: filters and pagination built by getAllTasksController
  out,      \* per request: outcomes (JSON responses sent, errors propagated)
  trace,    \* per request: the calls made so far, in order
  sends,    \* per request: calls of resend.emails.send and their settlement
  notify,   \* per request: state of the promise returned by notifyUser
  console,  \* per request: console.log / console.error lines
  version,  \* number of changes made to the task store so far
  readAt    \* per request: the version of the store its read was served from

vars == <<tasks, nextId, pc, req, cur, args, out, trace, sends, notify, console,
          version, readAt>>

----------------------------------------------------------------------------
(* Values *)

NoTask == [id |-> 0, title |-> "", description |-> "", assignedTo |-> "",
           project |-> "", workspace |-> ""]
NoUser == [id |-> "", name |-> "", email |-> ""]

\* A query parameter: absent (undefined) or a text, a sequence of characters.
Absent == [given |-> FALSE, text |-> <<>>]
Text(s) == [given |-> TRUE, text |-> s]
NoQuery == [projectId |-> Absent, status |-> Absent, priority |-> Absent,
            assignedTo |-> Absent, keyword |-> Absent, dueDate |-> Absent,
            pageSize |-> Absent, pageNumber |-> Absent]

Malformed == [ok |-> FALSE, title |-> "", description |-> "", assignedTo |-> ""]
Body(t, a) == [ok |-> TRUE, title |-> t, description |-> "about " \o t, assignedTo |-> a]

Request(k, u, b, i, p, w, q) ==
  [kind |-> k, userId |-> u, body |-> b, id |-> i, projectId |-> p,
   workspaceId |-> w, query |-> q]
NoReq == Request("none", "", Malformed, 0, "", "", NoQuery)

Undefined == [defined |-> FALSE, list |-> <<>>]
NoArgs == [filters |-> [projectId |-> Absent, status |-> Undefined,
                        priority |-> Undefined, assignedTo |-> Undefined,
                        keyword |-> Absent, dueDate |-> Absent],
           pagination |-> [pageSize |-> 0, pageNumber |-> 0]]

\* An outcome of a request: a JSON response, or an error thrown to asyncHandler.
Json(s, m, t, d) == [type |-> "json", status |-> s, message |-> m, task |-> t,
                     data |-> d, error |-> ""]
Thrown(e) == [type |-> "error", status |-> 0, message |-> "", task |-> NoTask,
              data |-> {}, error |-> e]

----------------------------------------------------------------------------
(* Collaborators imported by the file, modelled from the specification *)

HTTPSTATUS == [OK |-> 200, BAD_REQUEST |-> 400]

\* UserModel: the users collection.
UserDb == [owner   |-> [id |-> "owner", name |-> "Olga", email |-> "olga@example.org"],
           viewer  |-> [id |-> "viewer", name |-> "Vik", email |-> "vik@example.org"],
           visitor |-> [id |-> "visitor", name |-> "Val", email |-> "val@example.org"]]

findById(id) == IF id \in DOMAIN UserDb THEN UserDb[id] ELSE NoUser

\* Roles of the members of workspace "w1", and the permissions of each role.
Members == [owner |-> "OWNER", viewer |-> "VIEWER"]
RolePermissions == [OWNER  |-> {"CREATE_TASK", "EDIT_TASK", "VIEW_ONLY", "DELETE_TASK"},
                    VIEWER |-> {"VIEW_ONLY"}]

\* Resolves the caller's role; rejects when the caller is no member.
getMemberRoleInWorkspace(userId, workspaceId) ==
  IF workspaceId = "w1" /\ userId \in DOMAIN Members
  THEN [member |-> TRUE, role |-> Members[userId]]
  ELSE [member |-> FALSE, role |-> ""]

\* Passes iff the role holds every required permission; throws otherwise.
roleGuard(role, required) == required \subseteq RolePermissions[role]

\* Schemas: an id is a non-empty string (task ids: 0 stands for the empty
\* id); a body parses iff it is well formed.
idSchemaOk(x) == x # ""
taskIdSchemaOk(i) == i # 0
bodySchemaOk(b) == b.ok

\* The task document createTaskService stores under the fresh id.
createTaskService(id, workspaceId, projectId, userId, body) ==
  [id |-> id, title |-> body.title, description |-> body.description,
   assignedTo |-> body.assignedTo, project |-> projectId, workspace |-> workspaceId]

taskFound(store, workspaceId, projectId, taskId) ==
  /\ taskId \in DOMAIN store
  /\ store[taskId].workspace = workspaceId
  /\ store[taskId].project = projectId

updateTaskService(store, taskId, body) ==
  [store[taskId] EXCEPT !.title = body.title, !.description = body.description,
                        !.assignedTo = body.assignedTo]

\* What the filters and the page select is the service's business, which
\* the documentation leaves open: the result is the workspace's tasks.
getAllTasksService(store, workspaceId, filters, pagination) ==
  {store[i] : i \in {j \in DOMAIN store : store[j].workspace = workspaceId}}

Remove(store, taskId) == [i \in DOMAIN store \ {taskId} |-> store[i]]

----------------------------------------------------------------------------
(* getAllTasksController: filters and pagination from the query string *)

\* String.prototype.split(sep): the pieces between the separators, in order.
RECURSIVE split(_, _)
split(s, sep) ==
  LET hits == {i \in 1..Len(s) : s[i] = sep} IN
  IF hits = {} THEN <<s>>
  ELSE LET i == CHOOSE k \in hits : \A j \in hits : k <= j
       IN <<SubSeq(s, 1, i - 1)>> \o split(SubSeq(s, i + 1, Len(s)), sep)

\* `req.query.x ? req.query.x.split(",") : undefined`: undefined and the
\* empty string are falsy.
QueryList(p) ==
  IF p.given /\ p.text # <<>> THEN [defined |-> TRUE, list |-> split(p.text, ",")]
  ELSE Undefined

HexDigits == <<"0", "1", "2", "3", "4", "5", "6", "7", "8", "9",
               "a", "b", "c", "d", "e", "f">>
\* Value of character c as a digit of the radix, or -1.
DigitValue(c, radix) ==
  LET at == {i \in 1..radix : HexDigits[i] = c} IN
  IF at = {} THEN -1 ELSE (CHOOSE i \in at : TRUE) - 1

NaN == [nan |-> TRUE, value |-> 0]
Num(n) == [nan |-> FALSE, value |-> n]

\* The longest prefix of digits of s read in the radix; NaN when it is empty.
RECURSIVE ParseDigits(_, _, _, _)
ParseDigits(s, radix, acc, seen) ==
  IF s # <<>> /\ DigitValue(Head(s), radix) >= 0
  THEN ParseDigits(Tail(s), radix, acc * radix + DigitValue(Head(s), radix), TRUE)
  ELSE IF seen THEN Num(acc) ELSE NaN

RECURSIVE TrimStart(_)
TrimStart(s) == IF s # <<>> /\ Head(s) = " " THEN TrimStart(Tail(s)) ELSE s

\* parseInt(string) with no radix: leading blanks, an optional sign, an
\* optional 0x prefix, then the digits up to the first other character.
parseInt(s) ==
  LET t == TrimStart(s)
      signed == t # <<>> /\ Head(t) \in {"-", "+"}
      u == IF signed THEN Tail(t) ELSE t
      hex == Len(u) >= 2 /\ u[1] = "0" /\ u[2] \in {"x", "X"}
      r == IF hex THEN ParseDigits(SubSeq(u, 3, Len(u)), 16, 0, FALSE)
           ELSE ParseDigits(u, 10, 0, FALSE)
  IN IF r.nan THEN NaN
     ELSE IF signed /\ Head(t) = "-" THEN Num(0 - r.value) ELSE r

\* parseInt(req.query.x as string): an absent parameter is undefined, which
\* parseInt reads as the text "undefined".
ParamInt(p) == IF p.given THEN parseInt(p.text) ELSE NaN

\* Variant: `n ?? d`-like defaulting, only for a missing number.
JsOrNaNOnly(n, d) == IF n.nan THEN d ELSE n.value

\* `n || d`: NaN and 0 are falsy.
JsOr(n, d) == IF n.nan \/ n.value = 0 THEN d ELSE n.value

BuildFilters(q) ==
  [projectId  |-> q.projectId,
   status     |-> QueryList(q.status),
   priority   |-> QueryList(q.priority),
   assignedTo |-> QueryList(q.assignedTo),
   keyword    |-> q.keyword,
   dueDate    |-> q.dueDate]

BuildPagination(q) ==
  [pageSize   |-> JsOr(ParamInt(q.pageSize), 10),
   pageNumber |-> JsOr(ParamInt(q.pageNumber), 1)]

----------------------------------------------------------------------------
(* notifyUser *)

\* The one call of resend.emails.send made by notifyUser.
notifyUserSend(p) ==
  [from |-> "no-reply@techriserwanda.org", to |-> p.userEmail,
   subject |-> p.subject, html |-> p.message, result |-> "pending"]

\* Variant: the catch block logs and rethrows.
notifyUserSettleRethrow(ok) ==
  [log |-> IF ok THEN "Email sent successfully:" ELSE "Error sending email:",
   promise |-> IF ok THEN "resolved" ELSE "rejected"]

\* What notifyUser does when the send settles: it logs, and its promise
\* resolves whether the send was fulfilled or rejected.
notifyUserSettle(ok) ==
  [log |-> IF ok THEN "Email sent successfully:" ELSE "Error sending email:",
   promise |-> "resolved"]

----------------------------------------------------------------------------
(* Requests the clients send *)

\* Callers: "owner" holds every permission in workspace "w1", "viewer" only
\* VIEW_ONLY, "visitor" is a user but no member.  Assignee "ghost" is no user.
\* Empty ids and Malformed bodies fail their schema.

\* <<userid header, body, projectId, workspaceId>>
CreateInputs ==
  {<<"owner", Body("t1", "viewer"), "p1", "w1">>,
   <<"owner", Body("t2", "visitor"), "p1", "w1">>,
   <<"owner", Body("t1", "ghost"), "p1", "w1">>,
   <<"viewer", Body("t1", "viewer"), "p1", "w1">>,
   <<"visitor", Body("t1", "viewer"), "p1", "w1">>,
   <<"owner", Malformed, "p1", "w1">>,
   <<"visitor", Malformed, "p1", "w1">>,
   <<"visitor", Body("t1", "viewer"), "", "w1">>,
   <<"viewer", Body("t1", "viewer"), "p1", "">>}
\* <<userid header, body, id, projectId, workspaceId>>
UpdateInputs ==
  {<<"owner", Body("t3", "owner"), 1, "p1", "w1">>,
   <<"owner", Body("t3", "owner"), 2, "p1", "w1">>,
   <<"viewer", Body("t3", "owner"), 1, "p1", "w1">>,
   <<"visitor", Body("t3", "owner"), 1, "p1", "w1">>,
   <<"owner", Malformed, 1, "p1", "w1">>,
   <<"visitor", Malformed, 1, "p1", "w1">>,
   <<"viewer", Body("t3", "owner"), 0, "p1", "w1">>,
   <<"visitor", Body("t3", "owner"), 1, "", "w1">>,
   <<"visitor", Body("t3", "owner"), 1, "p1", "">>}
\* <<userid header, id, projectId, workspaceId>>
GetInputs ==
  {<<"owner", 1, "p1", "w1">>, <<"owner", 2, "p1", "w1">>,
   <<"viewer", 1, "p1", "w1">>, <<"visitor", 1, "p1", "w1">>,
   <<"visitor", 0, "p1", "w1">>, <<"owner", 1, "", "w1">>,
   <<"visitor", 1, "p1", "">>}
\* <<userid header, id, workspaceId>>
DeleteInputs ==
  {<<"owner", 1, "w1">>, <<"owner", 2, "w1">>, <<"viewer", 1, "w1">>,
   <<"visitor", 1, "w1">>, <<"viewer", 0, "w1">>, <<"visitor", 1, "">>}

\* status=a,b&priority=x&pageSize=5&pageNumber=2
ExampleQuery ==
  [NoQuery EXCEPT !.status = Text(<<"a", ",", "b">>), !.priority = Text(<<"x">>),
                  !.pageSize = Text(<<"5">>), !.pageNumber = Text(<<"2">>)]
\* <<userid header, workspaceId, query>>
ListInputs ==
  {<<"owner", "w1", NoQuery>>, <<"owner", "w1", ExampleQuery>>,
   <<"viewer", "w1", ExampleQuery>>, <<"visitor", "w1", NoQuery>>,
   <<"visitor", "", ExampleQuery>>}

SeedTask == [id |-> 1, title |-> "t0", description |-> "about t0",
             assignedTo |-> "owner", project |-> "p1", workspace |-> "w1"]

----------------------------------------------------------------------------
(* The controllers *)

\* Variant: deleteTaskController guards with the permission of the read endpoints.
RequiredPermissionViewOnly(kind) ==
  CASE kind = "create" -> "CREATE_TASK"
    [] kind = "update" -> "EDIT_TASK"
    [] kind = "list"   -> "VIEW_ONLY"
    [] kind = "get"    -> "VIEW_ONLY"
    [] kind = "delete" -> "VIEW_ONLY"

\* Permission each controller passes to roleGuard.
RequiredPermission(kind) ==
  CASE kind = "create" -> "CREATE_TASK"
    [] kind = "update" -> "EDIT_TASK"
    [] kind = "list"   -> "VIEW_ONLY"
    [] kind = "get"    -> "VIEW_ONLY"
    [] kind = "delete" -> "DELETE_TASK"

\* Task service each controller awaits once the guard has passed.
ServiceOf(kind) ==
  CASE kind = "create" -> "createTaskService"
    [] kind = "update" -> "updateTaskService"
    [] kind = "list"   -> "getAllTasksService"
    [] kind = "get"    -> "getTaskByIdService"
    [] kind = "delete" -> "deleteTaskService"

\* Variant: updateTaskController does not parse its body.
ParsesOkNoBody(r) ==
  CASE r.kind = "create" ->
         bodySchemaOk(r.body) /\ idSchemaOk(r.projectId) /\ idSchemaOk(r.workspaceId)
    [] r.kind = "update" ->
         taskIdSchemaOk(r.id) /\ idSchemaOk(r.projectId) /\ idSchemaOk(r.workspaceId)
    [] r.kind = "list" -> idSchemaOk(r.workspaceId)
    [] r.kind = "get" ->
         taskIdSchemaOk(r.id) /\ idSchemaOk(r.projectId) /\ idSchemaOk(r.workspaceId)
    [] r.kind = "delete" -> taskIdSchemaOk(r.id) /\ idSchemaOk(r.workspaceId)

\* The schema parses each controller runs before anything else.
ParsesOk(r) ==
  CASE r.kind = "create" ->
         bodySchemaOk(r.body) /\ idSchemaOk(r.projectId) /\ idSchemaOk(r.workspaceId)
    [] r.kind = "update" ->
         /\ bodySchemaOk(r.body) /\ taskIdSchemaOk(r.id)
         /\ idSchemaOk(r.projectId) /\ idSchemaOk(r.workspaceId)
    [] r.kind = "list" -> idSchemaOk(r.workspaceId)
    [] r.kind = "get" ->
         taskIdSchemaOk(r.id) /\ idSchemaOk(r.projectId) /\ idSchemaOk(r.workspaceId)
    [] r.kind = "delete" -> taskIdSchemaOk(r.id) /\ idSchemaOk(r.workspaceId)

\* Request r moves to await `to`, having made `calls` and produced `outs`.
Step(r, to, calls, outs) ==
  /\ pc' = [pc EXCEPT ![r] = to]
  /\ trace' = [trace EXCEPT ![r] = @ \o calls]
  /\ out' = [out EXCEPT ![r] = @ \o outs]

\* Entry of a controller: read the header, parse body and params, build the
\* listing arguments, and call getMemberRoleInWorkspace.
Start(r, rq) ==
  /\ pc[r] = "idle"
  /\ \A q \in Reqs : q < r => pc[q] # "idle"   \* requests are numbered as they arrive
  /\ req' = [req EXCEPT ![r] = rq]
  /\ IF ParsesOk(rq)
     THEN /\ Step(r, "role", <<"parse", "getMemberRoleInWorkspace">>, <<>>)
          /\ args' = [args EXCEPT ![r] =
                        IF rq.kind = "list"
                        THEN [filters |-> BuildFilters(rq.query),
                              pagination |-> BuildPagination(rq.query)]
                        ELSE NoArgs]
     ELSE /\ Step(r, "done", <<"parse">>, <<Thrown("ValidationError")>>)
          /\ UNCHANGED args
  /\ UNCHANGED <<tasks, nextId, cur, sends, notify, console, version, readAt>>

\* getMemberRoleInWorkspace settles; roleGuard; the task service is called.
Authorize(r, kind) ==
  /\ pc[r] = "role"
  /\ req[r].kind = kind
  /\ LET m == getMemberRoleInWorkspace(req[r].userId, req[r].workspaceId) IN
     IF ~m.member
     THEN Step(r, "done", <<>>, <<Thrown("NotMember")>>)
     ELSE IF ~roleGuard(m.role, {RequiredPermission(kind)})
     THEN Step(r, "done", <<"roleGuard">>, <<Thrown("Forbidden")>>)
     ELSE Step(r, "service", <<"roleGuard", ServiceOf(kind)>>, <<>>)
  /\ UNCHANGED <<tasks, nextId, req, cur, args, sends, notify, console, version, readAt>>

CreateStart(r, in) == Start(r, Request("create", in[1], in[2], 0, in[3], in[4], NoQuery))
CreateAuthorize(r) == Authorize(r, "create")

\* createTaskService resolves with the stored task; UserModel.findById is called.
CreateService(r) ==
  /\ pc[r] = "service"
  /\ req[r].kind = "create"
  /\ LET t == createTaskService(nextId, req[r].workspaceId, req[r].projectId,
                                req[r].userId, req[r].body) IN
     /\ tasks' = [i \in DOMAIN tasks \cup {nextId} |-> IF i = nextId THEN t ELSE tasks[i]]
     /\ cur' = [cur EXCEPT ![r] = t]
  /\ nextId' = nextId + 1
  /\ version' = version + 1
  /\ Step(r, "lookup", <<"findById">>, <<>>)
  /\ UNCHANGED <<req, args, sends, notify, console, readAt>>

AssigneeNotFoundResponse ==
  Json(HTTPSTATUS.BAD_REQUEST, "Assigned user not found.", NoTask, {})

\* Variant: the subject names the description instead of the title.
CreateSubjectDescription(task) == "Task Assigned: " \o task.description

CreateSubject(task) == "Task Assigned: " \o task.title

\* The parts interpolated into the HTML template.
CreateMessage(user, workspaceId, projectId, task) ==
  <<"Hello", user.name, "View Project", workspaceId, projectId,
    "Title:", task.title, "Description:", task.description>>

\* Variant: the task is deleted again when the assignee is not found.
CreateLookupRollback(r) ==
  /\ pc[r] = "lookup"
  /\ LET assignedUser == findById(req[r].body.assignedTo) IN
     IF assignedUser = NoUser
     THEN /\ Step(r, "done", <<"respond">>, <<AssigneeNotFoundResponse>>)
          /\ tasks' = Remove(tasks, cur[r].id)
          /\ UNCHANGED <<sends, notify>>
     ELSE /\ sends' = [sends EXCEPT ![r] = Append(@, notifyUserSend(
                         [userEmail |-> assignedUser.email,
                          subject |-> CreateSubject(cur[r]),
                          message |-> CreateMessage(assignedUser, req[r].workspaceId,
                                                    req[r].projectId, cur[r])]))]
          /\ notify' = [notify EXCEPT ![r] = "pending"]
          /\ Step(r, "sending", <<"notifyUser", "send">>, <<>>)
          /\ UNCHANGED tasks
  /\ UNCHANGED <<nextId, req, cur, args, console, version, readAt>>

\* Variant: notifyUser is not awaited; the response leaves at once.
CreateLookupNoAwait(r) ==
  /\ pc[r] = "lookup"
  /\ LET assignedUser == findById(req[r].body.assignedTo) IN
     IF assignedUser = NoUser
     THEN /\ Step(r, "done", <<"respond">>, <<AssigneeNotFoundResponse>>)
          /\ UNCHANGED <<sends, notify>>
     ELSE /\ sends' = [sends EXCEPT ![r] = Append(@, notifyUserSend(
                         [userEmail |-> assignedUser.email,
                          subject |-> CreateSubject(cur[r]),
                          message |-> CreateMessage(assignedUser, req[r].workspaceId,
                                                    req[r].projectId, cur[r])]))]
          /\ notify' = [notify EXCEPT ![r] = "pending"]
          /\ Step(r, "done", <<"notifyUser", "send", "respond">>,
                  <<Json(HTTPSTATUS.OK, "Task created successfully and notification sent.",
                         cur[r], {})>>)
  /\ UNCHANGED <<tasks, nextId, req, cur, args, console, version, readAt>>

\* findById settles: 400 when there is no such user, else the e-mail is
\* composed and notifyUser runs up to its await of the provider's send.
CreateLookup(r) ==
  /\ pc[r] = "lookup"
  /\ LET assignedUser == findById(req[r].body.assignedTo) IN
     IF assignedUser = NoUser
     THEN /\ Step(r, "done", <<"respond">>, <<AssigneeNotFoundResponse>>)
          /\ UNCHANGED <<sends, notify>>
     ELSE /\ sends' = [sends EXCEPT ![r] = Append(@, notifyUserSend(
                         [userEmail |-> assignedUser.email,
                          subject |-> CreateSubject(cur[r]),
                          message |-> CreateMessage(assignedUser, req[r].workspaceId,
                                                    req[r].projectId, cur[r])]))]
          /\ notify' = [notify EXCEPT ![r] = "pending"]
          /\ Step(r, "sending", <<"notifyUser", "send">>, <<>>)
  /\ UNCHANGED <<tasks, nextId, req, cur, args, console, version, readAt>>

\* Variant: a rejected send turns the response into a failure.
CreateResponseFailsOnError(task, settle) ==
  IF settle.log = "Error sending email:"
  THEN Json(500, "Task created but notification failed.", task, {})
  ELSE Json(HTTPSTATUS.OK, "Task created successfully and notification sent.", task, {})

\* Response of createTaskController once the try/catch around notifyUser is left.
CreateResponse(task, settle) ==
  Json(HTTPSTATUS.OK, "Task created successfully and notification sent.", task, {})

\* Variant: a rejected send is tried once more.
CreateNotifiedRetry(r, ok) ==
  /\ pc[r] = "sending"
  /\ IF ~ok /\ Len(sends[r]) = 1
     THEN /\ sends' = [sends EXCEPT ![r] =
                         Append([@ EXCEPT ![1].result = "rejected"],
                                [sends[r][1] EXCEPT !.result = "pending"])]
          /\ console' = [console EXCEPT ![r] = @ \o <<"Error sending email:">>]
          /\ UNCHANGED <<pc, trace, out, notify>>
     ELSE LET settle == notifyUserSettle(ok) IN
          /\ sends' = [sends EXCEPT ![r] =
                         [@ EXCEPT ![Len(sends[r])].result =
                                     IF ok THEN "fulfilled" ELSE "rejected"]]
          /\ notify' = [notify EXCEPT ![r] = settle.promise]
          /\ console' = [console EXCEPT ![r] = @ \o <<settle.log>>]
          /\ Step(r, "done", <<"settled", "respond">>, <<CreateResponse(cur[r], settle)>>)
  /\ UNCHANGED <<tasks, nextId, req, cur, args, version, readAt>>

\* The provider's send settles (ok: fulfilled, else rejected); notifyUser
\* logs and settles; the controller's try/catch ends and it responds.
CreateNotified(r, ok) ==
  /\ pc[r] = "sending"
  /\ LET settle == notifyUserSettle(ok) IN
     /\ sends' = [sends EXCEPT ![r] =
                    [@ EXCEPT ![Len(sends[r])].result =
                                IF ok THEN "fulfilled" ELSE "rejected"]]
     /\ notify' = [notify EXCEPT ![r] = settle.promise]
     /\ console' = [console EXCEPT ![r] =
                      @ \o <<settle.log>> \o
                      IF settle.promise = "rejected" THEN <<"Error sending email:">>
                      ELSE <<>>]
     /\ Step(r, "done", <<"settled", "respond">>, <<CreateResponse(cur[r], settle)>>)
  /\ UNCHANGED <<tasks, nextId, req, cur, args, version, readAt>>

UpdateStart(r, in) == Start(r, Request("update", in[1], in[2], in[3], in[4], in[5], NoQuery))
UpdateAuthorize(r) == Authorize(r, "update")

\* updateTaskService settles; the controller responds with the updated task.
UpdateService(r) ==
  /\ pc[r] = "service"
  /\ req[r].kind = "update"
  /\ IF taskFound(tasks, req[r].workspaceId, req[r].projectId, req[r].id)
     THEN LET updatedTask == updateTaskService(tasks, req[r].id, req[r].body) IN
          /\ tasks' = [tasks EXCEPT ![req[r].id] = updatedTask]
          /\ cur' = [cur EXCEPT ![r] = updatedTask]
          /\ version' = version + 1
          /\ Step(r, "done", <<"respond">>,
                  <<Json(HTTPSTATUS.OK, "Task updated successfully", updatedTask, {})>>)
     ELSE /\ Step(r, "done", <<>>, <<Thrown("NotFound")>>)
          /\ UNCHANGED <<tasks, cur, version>>
  /\ UNCHANGED <<nextId, req, args, sends, notify, console, readAt>>

ListStart(r, in) == Start(r, Request("list", in[1], Malformed, 0, "", in[2], in[3]))
ListAuthorize(r) == Authorize(r, "list")

\* getAllTasksService settles; its result is merged into the response.
ListService(r) ==
  /\ pc[r] = "service"
  /\ req[r].kind = "list"
  /\ Step(r, "done", <<"respond">>,
          <<Json(HTTPSTATUS.OK, "All tasks fetched successfully", NoTask,
                 getAllTasksService(tasks, req[r].workspaceId, args[r].filters,
                                    args[r].pagination))>>)
  /\ UNCHANGED <<tasks, nextId, req, cur, args, sends, notify, console, version, readAt>>

GetStart(r, in) == Start(r, Request("get", in[1], Malformed, in[2], in[3], in[4], NoQuery))
GetAuthorize(r) == Authorize(r, "get")

\* Variant: the controller awaits deleteTaskService, as deleteTaskController does.
GetServiceDeletes(r) ==
  /\ pc[r] = "service"
  /\ req[r].kind = "get"
  /\ IF req[r].id \in DOMAIN tasks /\ tasks[req[r].id].workspace = req[r].workspaceId
     THEN /\ tasks' = Remove(tasks, req[r].id)
          /\ version' = version + 1
          /\ Step(r, "done", <<"respond">>,
                  <<Json(HTTPSTATUS.OK, "Task fetched successfully", tasks[req[r].id], {})>>)
     ELSE /\ Step(r, "done", <<>>, <<Thrown("NotFound")>>)
          /\ UNCHANGED <<tasks, version>>
  /\ readAt' = [readAt EXCEPT ![r] = version]
  /\ UNCHANGED <<nextId, req, cur, args, sends, notify, console>>

\* getTaskByIdService settles; the controller responds with the task.
GetService(r) ==
  /\ pc[r] = "service"
  /\ req[r].kind = "get"
  /\ IF taskFound(tasks, req[r].workspaceId, req[r].projectId, req[r].id)
     THEN /\ cur' = [cur EXCEPT ![r] = tasks[req[r].id]]
          /\ Step(r, "done", <<"respond">>,
                  <<Json(HTTPSTATUS.OK, "Task fetched successfully", tasks[req[r].id], {})>>)
     ELSE /\ Step(r, "done", <<>>, <<Thrown("NotFound")>>)
          /\ UNCHANGED cur
  /\ readAt' = [readAt EXCEPT ![r] = version]
  /\ UNCHANGED <<tasks, nextId, req, args, sends, notify, console, version>>

DeleteStart(r, in) == Start(r, Request("delete", in[1], Malformed, in[2], "", in[3], NoQuery))
DeleteAuthorize(r) == Authorize(r, "delete")

\* deleteTaskService settles; the controller confirms.
DeleteService(r) ==
  /\ pc[r] = "service"
  /\ req[r].kind = "delete"
  /\ IF req[r].id \in DOMAIN tasks /\ tasks[req[r].id].workspace = req[r].workspaceId
     THEN /\ tasks' = Remove(tasks, req[r].id)
          /\ version' = version + 1
          /\ Step(r, "done", <<"respond">>,
                  <<Json(HTTPSTATUS.OK, "Task deleted successfully", NoTask, {})>>)
     ELSE /\ Step(r, "done", <<>>, <<Thrown("NotFound")>>)
          /\ UNCHANGED <<tasks, version>>
  /\ UNCHANGED <<nextId, req, cur, args, sends, notify, console, readAt>>

----------------------------------------------------------------------------
(* Specification *)

Init ==
  /\ tasks = [i \in {1} |-> SeedTask]
  /\ nextId = 2
  /\ pc = [r \in Reqs |-> "idle"]
  /\ req = [r \in Reqs |-> NoReq]
  /\ cur = [r \in Reqs |-> NoTask]
  /\ args = [r \in Reqs |-> NoArgs]
  /\ out = [r \in Reqs |-> <<>>]
  /\ trace = [r \in Reqs |-> <<>>]
  /\ sends = [r \in Reqs |-> <<>>]
  /\ notify = [r \in Reqs |-> "none"]
  /\ console = [r \in Reqs |-> <<>>]
  /\ version = 0
  /\ readAt = [r \in Reqs |-> 0]

Next ==
  \/ \E r \in Reqs, in \in CreateInputs : CreateStart(r, in)
  \/ \E r \in Reqs : CreateAuthorize(r)
  \/ \E r \in Reqs : CreateService(r)
  \/ \E r \in Reqs : CreateLookup(r)
  \/ \E r \in Reqs, ok \in BOOLEAN : CreateNotified(r, ok)
  \/ \E r \in Reqs, in \in UpdateInputs : UpdateStart(r, in)
  \/ \E r \in Reqs : UpdateAuthorize(r)
  \/ \E r \in Reqs : UpdateService(r)
  \/ \E r \in Reqs, in \in ListInputs : ListStart(r, in)
  \/ \E r \in Reqs : ListAuthorize(r)
  \/ \E r \in Reqs : ListService(r)
  \/ \E r \in Reqs, in \in GetInputs : GetStart(r, in)
  \/ \E r \in Reqs : GetAuthorize(r)
  \/ \E r \in Reqs : GetService(r)
  \/ \E r \in Reqs, in \in DeleteInputs : DeleteStart(r, in)
  \/ \E r \in Reqs : DeleteAuthorize(r)
  \/ \E r \in Reqs : DeleteService(r)

Spec == Init /\ [][Next]_vars

\* The listing endpoint alone, over every query text up to MaxLen characters.
ListChars == {"a", "b", ","}
NumChars == {"0", "2", "5", "x", "-", " "}
Texts(chars) == UNION {[1..n -> chars] : n \in 0..MaxLen}
QueryInputs ==
  {NoQuery, ExampleQuery}
  \cup {[NoQuery EXCEPT !.status = Text(t)] : t \in Texts(ListChars)}
  \cup {[ExampleQuery EXCEPT !.priority = Text(t)] : t \in Texts(ListChars)}
  \cup {[NoQuery EXCEPT !.assignedTo = Text(t)] : t \in Texts(ListChars)}
  \cup {[NoQuery EXCEPT !.pageSize = Text(t)] : t \in Texts(NumChars)}
  \cup {[ExampleQuery EXCEPT !.pageNumber = Text(t)] : t \in Texts(NumChars)}

NextQuery ==
  \/ \E u \in {"owner", "viewer"}, q \in QueryInputs : ListStart(1, <<u, "w1", q>>)
  \/ ListAuthorize(1)
  \/ ListService(1)

SpecQuery == Init /\ [][NextQuery]_vars

----------------------------------------------------------------------------
(* Properties *)

Done(r) == pc[r] = "done"
Sent(r) == req[r].kind # "none"
Has(r, call) == \E i \in DOMAIN trace[r] : trace[r][i] = call
At(r, call) == CHOOSE i \in DOMAIN trace[r] : trace[r][i] = call
Before(r, a, b) == Has(r, a) /\ Has(r, b) /\ At(r, a) < At(r, b)
Replied(r, status) == \E i \in DOMAIN out[r] : out[r][i].type = "json" /\ out[r][i].status = status
Services == {"createTaskService", "updateTaskService", "getAllTasksService",
             "getTaskByIdService", "deleteTaskService"}
CalledService(r) == \E sv \in Services : Has(r, sv)

\* The permission the documentation gives each endpoint.
EndpointPermission ==
  [create |-> "CREATE_TASK", update |-> "EDIT_TASK", list |-> "VIEW_ONLY",
   get |-> "VIEW_ONLY", delete |-> "DELETE_TASK"]
EndpointService ==
  [create |-> "createTaskService", update |-> "updateTaskService",
   list |-> "getAllTasksService", get |-> "getTaskByIdService",
   delete |-> "deleteTaskService"]

\* The caller is a member of the workspace whose role holds the endpoint's permission.
Permitted(rq) ==
  /\ rq.workspaceId = "w1"
  /\ rq.userId \in DOMAIN Members
  /\ EndpointPermission[rq.kind] \in RolePermissions[Members[rq.userId]]

\* The body or a path id of the request fails its schema.
FailsValidation(rq) ==
  \/ rq.kind \in {"create", "update"} /\ ~rq.body.ok
  \/ rq.kind \in {"update", "get", "delete"} /\ rq.id = 0
  \/ rq.kind \in {"create", "update", "get"} /\ rq.projectId = ""
  \/ rq.workspaceId = ""

AuthorizationFailure(o) == o.type = "error" /\ o.error \in {"NotMember", "Forbidden"}

\* Request r's step is the one being taken.
Acts(r) == pc'[r] # pc[r]

\* The task request r created is stored, unless a delete request removed it.
StillStored(r) ==
  \/ cur[r].id \in DOMAIN tasks
  \/ \E d \in Reqs : req[d].kind = "delete" /\ req[d].id = cur[r].id /\ Replied(d, 200)

\* C1 (as stated): a request whose caller is no member or lacks the
\* endpoint's permission leaves the tasks alone, attempts no e-mail, and ends
\* with an authorization failure.
C1_AsStated ==
  \A r \in Reqs :
    Sent(r) /\ ~Permitted(req[r]) =>
      /\ ~CalledService(r)
      /\ sends[r] = <<>>
      /\ Done(r) => Len(out[r]) = 1 /\ AuthorizationFailure(out[r][1])

C1_Guarded ==
  \A r \in Reqs :
    /\ CalledService(r) =>
         /\ Has(r, EndpointService[req[r].kind])
         /\ Before(r, "getMemberRoleInWorkspace", "roleGuard")
         /\ Before(r, "roleGuard", EndpointService[req[r].kind])
         /\ Permitted(req[r])
    /\ Sent(r) /\ ~Permitted(req[r]) =>
         /\ ~CalledService(r)
         /\ sends[r] = <<>>
         /\ ~Replied(r, 200)
         /\ Done(r) /\ ~FailsValidation(req[r]) =>
              Len(out[r]) = 1 /\ AuthorizationFailure(out[r][1])
         /\ Done(r) /\ FailsValidation(req[r]) =>
              out[r] = <<Thrown("ValidationError")>>

C1_NoWrite ==
  \A r \in Reqs : Acts(r) /\ ~Permitted(req'[r]) => tasks' = tasks

\* C1 (amended): the task service is invoked only after the role lookup
\* resolved and roleGuard passed for the endpoint's permission; a request
\* of a non-member or of a role lacking the permission never changes the
\* tasks, attempts no e-mail and gets no 200: it ends with an authorization
\* failure when it passes validation, and with the validation error otherwise.
C1_Theorem == [](C1_Guarded) /\ [][C1_NoWrite]_vars

C1_Witness ==
  \E r \in Reqs :
    /\ Done(r) /\ req[r].kind = "delete" /\ req[r].userId = "viewer"
    /\ ~FailsValidation(req[r])
    /\ out[r] = <<Thrown("Forbidden")>>

\* A create request that passed validation and authorization.
CreateAdmitted(r) ==
  req[r].kind = "create" /\ ~FailsValidation(req[r]) /\ Permitted(req[r])
AssigneeExists(r) == req[r].body.assignedTo \in DOMAIN UserDb

\* C2: a valid, authorized create whose assignee exists answers 200 with
\* the created task and the success message, and attempts exactly one
\* e-mail, to the assignee, with subject "Task Assigned: " + title.
C2_Theorem ==
  \A r \in Reqs :
    CreateAdmitted(r) /\ AssigneeExists(r) /\ Done(r) =>
      /\ out[r] = <<[type |-> "json", status |-> 200,
                     message |-> "Task created successfully and notification sent.",
                     task |-> cur[r], data |-> {}, error |-> ""]>>
      /\ cur[r].id >= 1 /\ cur[r].title = req[r].body.title
      /\ Len(sends[r]) = 1
      /\ sends[r][1].to = UserDb[req[r].body.assignedTo].email
      /\ sends[r][1].subject = "Task Assigned: " \o req[r].body.title

C2_Witness ==
  \E r \in Reqs :
    /\ CreateAdmitted(r) /\ Done(r) /\ req[r].body.title = "t2"
    /\ sends[r][1].subject = "Task Assigned: t2"
    /\ sends[r][1].to = "val@example.org"

\* C3: a valid, authorized create whose assignee is no user answers 400
\* "Assigned user not found.", attempts no e-mail, and the task it created
\* stays in the store.
C3_Theorem ==
  \A r \in Reqs :
    CreateAdmitted(r) /\ ~AssigneeExists(r) /\ Done(r) =>
      /\ Len(out[r]) = 1
      /\ out[r][1].type = "json" /\ out[r][1].status = 400
      /\ out[r][1].message = "Assigned user not found."
      /\ sends[r] = <<>>
      /\ cur[r].id >= 1 /\ cur[r].title = req[r].body.title
      /\ StillStored(r)

C3_Witness ==
  \E r \in Reqs :
    /\ CreateAdmitted(r) /\ ~AssigneeExists(r) /\ Done(r)
    /\ Replied(r, 400)
    /\ cur[r].id \in DOMAIN tasks /\ tasks[cur[r].id] = cur[r]

\* C4: notifyUser calls the provider's send exactly once and never again;
\* when the send is rejected it logs the error and still resolves, as it
\* does when the send is fulfilled.
C4_Theorem ==
  \A r \in Reqs :
    notify[r] # "none" =>
      /\ Len(sends[r]) = 1
      /\ notify[r] = "pending" <=> sends[r][1].result = "pending"
      /\ notify[r] # "pending" =>
           /\ notify[r] = "resolved"
           /\ sends[r][1].result = "rejected" => console[r] = <<"Error sending email:">>
           /\ sends[r][1].result = "fulfilled" => console[r] = <<"Email sent successfully:">>

C4_Witness ==
  \E r \in Reqs :
    /\ notify[r] = "resolved" /\ sends[r][1].result = "rejected"
    /\ console[r] = <<"Error sending email:">>

\* C5: a valid, authorized create whose assignee exists answers 200 with
\* the created task whether the send was fulfilled or rejected, and the task
\* stays in the store.
C5_Theorem ==
  \A r \in Reqs :
    CreateAdmitted(r) /\ AssigneeExists(r) /\ Done(r) =>
      /\ sends[r][1].result \in {"fulfilled", "rejected"}
      /\ Len(out[r]) = 1
      /\ out[r][1].type = "json" /\ out[r][1].status = 200
      /\ out[r][1].task = cur[r] /\ cur[r].title = req[r].body.title
      /\ StillStored(r)

C5_Witness ==
  \E r \in Reqs :
    /\ CreateAdmitted(r) /\ Done(r) /\ Replied(r, 200)
    /\ sends[r][1].result = "rejected"
    /\ cur[r].id \in DOMAIN tasks /\ tasks[cur[r].id] = cur[r]

\* A text read as a decimal numeral, without parseInt.
DecimalDigit ==
  [c \in {"0", "1", "2", "3", "4", "5", "6", "7", "8", "9"} |->
     CASE c = "0" -> 0 [] c = "1" -> 1 [] c = "2" -> 2 [] c = "3" -> 3 [] c = "4" -> 4
       [] c = "5" -> 5 [] c = "6" -> 6 [] c = "7" -> 7 [] c = "8" -> 8 [] c = "9" -> 9]
IsDecimal(t) == t # <<>> /\ \A i \in DOMAIN t : t[i] \in DOMAIN DecimalDigit
RECURSIVE Power10(_)
Power10(n) == IF n = 0 THEN 1 ELSE 10 * Power10(n - 1)
RECURSIVE DecimalSum(_, _)
DecimalSum(t, i) ==
  IF i > Len(t) THEN 0
  ELSE DecimalDigit[t[i]] * Power10(Len(t) - i) + DecimalSum(t, i + 1)
DecimalValue(t) == DecimalSum(t, 1)

\* The pieces put together again with commas between them.
RECURSIVE JoinComma(_)
JoinComma(l) ==
  IF Len(l) = 1 THEN l[1] ELSE l[1] \o <<",">> \o JoinComma(Tail(l))

\* A list filter is the comma-split of a present, non-empty parameter and
\* undefined otherwise.
SplitOf(p, f) ==
  IF p.given /\ p.text # <<>>
  THEN /\ f.defined
       /\ Len(f.list) >= 1
       /\ \A i \in DOMAIN f.list : \A j \in DOMAIN f.list[i] : f.list[i][j] # ","
       /\ JoinComma(f.list) = p.text
  ELSE f = Undefined

\* A listing request whose arguments have been handed to getAllTasksService.
Listed(r) == req[r].kind = "list" /\ Has(r, "getAllTasksService")

C6_Filters(r) ==
  /\ SplitOf(req[r].query.status, args[r].filters.status)
  /\ SplitOf(req[r].query.priority, args[r].filters.priority)
  /\ SplitOf(req[r].query.assignedTo, args[r].filters.assignedTo)
  /\ req[r].query = ExampleQuery =>
       /\ args[r].filters.status = [defined |-> TRUE, list |-> <<<<"a">>, <<"b">>>>]
       /\ args[r].filters.priority = [defined |-> TRUE, list |-> <<<<"x">>>>]
       /\ args[r].pagination = [pageSize |-> 5, pageNumber |-> 2]

\* The page number or size is the parameter's integer value when given.
PageAsStated(p, n, default) ==
  /\ ~p.given => n = default
  /\ p.given /\ IsDecimal(p.text) => n = DecimalValue(p.text)

\* C6 (as stated): the filter lists are the comma-splits of the parameters,
\* pageSize and pageNumber are the integer values of the parameters when
\* given, and 10 and 1 when omitted.
C6_AsStated ==
  \A r \in Reqs :
    Listed(r) =>
      /\ C6_Filters(r)
      /\ PageAsStated(req[r].query.pageSize, args[r].pagination.pageSize, 10)
      /\ PageAsStated(req[r].query.pageNumber, args[r].pagination.pageNumber, 1)

PageAmended(p, n, default) ==
  /\ ~p.given => n = default
  /\ p.given /\ IsDecimal(p.text) =>
       n = IF DecimalValue(p.text) = 0 THEN default ELSE DecimalValue(p.text)
  /\ p.given /\ Len(p.text) >= 2 /\ p.text[1] = "-" /\ IsDecimal(Tail(p.text)) =>
       n = IF DecimalValue(Tail(p.text)) = 0 THEN default
           ELSE 0 - DecimalValue(Tail(p.text))
  /\ p.given /\ (p.text = <<>> \/ p.text[1] = "x") => n = default

\* C6 (amended): as stated, except that a pageSize or pageNumber that is
\* zero, empty or does not start with a number yields the default (10, 1)
\* like an omitted one; a non-zero decimal integer, negative ones included,
\* is passed on as its value.
C6_Theorem ==
  \A r \in Reqs :
    Listed(r) =>
      /\ C6_Filters(r)
      /\ PageAmended(req[r].query.pageSize, args[r].pagination.pageSize, 10)
      /\ PageAmended(req[r].query.pageNumber, args[r].pagination.pageNumber, 1)

C6_Witness ==
  \E r \in Reqs :
    /\ Listed(r)
    /\ req[r].query.pageSize = Text(<<"0">>)
    /\ args[r].pagination = [pageSize |-> 10, pageNumber |-> 1]

SameTask(a, b) ==
  /\ req[a].id = req[b].id
  /\ req[a].projectId = req[b].projectId
  /\ req[a].workspaceId = req[b].workspaceId

C7_ReadOnly ==
  \A r \in Reqs :
    Acts(r) /\ req'[r].kind = "get" => tasks' = tasks /\ sends' = sends

C7_Repeatable ==
  \A a, b \in Reqs :
    /\ req[a].kind = "get" /\ req[b].kind = "get" /\ SameTask(a, b)
    /\ Permitted(req[a]) /\ Permitted(req[b]) /\ Done(a) /\ Done(b)
    /\ readAt[a] = readAt[b]
    => out[a] = out[b]

\* C7: a get-by-id request changes no task and attempts no e-mail, and two
\* authorized get-by-id requests for the same ids return the same task
\* when no create, update or delete took effect between their reads.
C7_Theorem == [](C7_Repeatable) /\ [][C7_ReadOnly]_vars

C7_Witness ==
  \E a, b \in Reqs :
    /\ a # b /\ req[a].kind = "get" /\ req[b].kind = "get" /\ SameTask(a, b)
    /\ req[a].userId # req[b].userId
    /\ Replied(a, 200) /\ Replied(b, 200)
    /\ out[a][1].task = SeedTask /\ out[b][1].task = SeedTask

\* Order of the calls on the create path.
CreateOrder ==
  <<"parse", "getMemberRoleInWorkspace", "roleGuard", "createTaskService",
    "findById", "notifyUser", "send", "settled", "respond">>
Rank(call) == CHOOSE i \in DOMAIN CreateOrder : CreateOrder[i] = call

C8_Rejected ==
  \A r \in Reqs :
    /\ Sent(r) /\ FailsValidation(req[r]) =>
         /\ Done(r)
         /\ out[r] = <<Thrown("ValidationError")>>
         /\ trace[r] = <<"parse">>
         /\ sends[r] = <<>>
    /\ Sent(r) => trace[r] # <<>> /\ trace[r][1] = "parse"
    /\ req[r].kind = "create" =>
         /\ \A i, j \in DOMAIN trace[r] : i < j => Rank(trace[r][i]) < Rank(trace[r][j])
         /\ Replied(r, 200) => trace[r] = CreateOrder

C8_NoWrite ==
  \A r \in Reqs : Acts(r) /\ FailsValidation(req'[r]) => tasks' = tasks

\* C8: a request whose body or path ids fail validation ends with the
\* validation error before any role lookup, task change or e-mail; on the
\* create path the calls come in the order validate, authorize, create,
\* look up the assignee, notify, respond.
C8_Theorem == [](C8_Rejected) /\ [][C8_NoWrite]_vars

C8_Witness ==
  \E r \in Reqs :
    /\ req[r].kind = "update" /\ req[r].userId = "owner" /\ ~req[r].body.ok
    /\ out[r] = <<Thrown("ValidationError")>>
    /\ \E c \in Reqs : req[c].kind = "create" /\ trace[c] = CreateOrder

\* C9: a request attempts at most one e-mail, and none unless it is a
\* create request whose task was created and whose assignee was found.
C9_Theorem ==
  \A r \in Reqs :
    /\ Len(sends[r]) <= 1
    /\ req[r].kind # "create" => sends[r] = <<>>
    /\ sends[r] # <<>> =>
         /\ req[r].kind = "create"
         /\ Before(r, "createTaskService", "send")
         /\ Before(r, "findById", "send")
         /\ cur[r].id >= 1
         /\ AssigneeExists(r)

C9_Witness ==
  /\ \E r \in Reqs : req[r].kind = "create" /\ Done(r) /\ Len(sends[r]) = 1
  /\ \E r \in Reqs : req[r].kind = "update" /\ Replied(r, 200) /\ sends[r] = <<>>

====
